---- MODULE Spec2Model ----
(***************************************************************************)
(* Signature workflow of the e-signature backend: Documents with their     *)
(* workflowSignature, Signature records, dispatch, the local sign / reject  *)
(* handlers, the Dropbox Sign webhook and manual resync, archival, the      *)
(* periodic cleanup, the expiration sweep and deletion.                     *)
(*                                                                          *)
(* The store is the pair (documents, signatures).  Every HTTP handler is an *)
(* operator named after it that runs the whole handler on the current store *)
(* and gives its answer: the HTTP status, whether the store was read or     *)
(* written, and the store it leaves.  A step of the system is one handler   *)
(* call, one scheduled job or one tick of the clock.                        *)
(*                                                                          *)
(* SpecConcurrent runs signerDocument and rejeterSignature as the separate  *)
(* steps their awaits make them: the read, the save of the record, the save *)
(* of the document; enCours holds the calls that have read and not finished.*)
(***************************************************************************)
EXTENDS Integers, Sequences, FiniteSets, TLC

VARIABLES documents, signatures, now, enCours

vars == <<documents, signatures, now, enCours>>

----------------------------------------------------------------------------
(* Bounds of the model *)

\* the clock runs over 0..MaxNow
MaxNow == 1
\* longest workflowSignature list a created document carries
MaxWorkflow == 2
\* longest `signatures` list of an inbound event payload
MaxPayload == 1
\* number of signerDocument / rejeterSignature calls in progress at once
MaxEnCours == 2
\* a document is archived through the route only while its historique is
\* shorter than this
MaxHistorique == 4

----------------------------------------------------------------------------
(* Value domains *)

DocIds == {"d1"}

\* users that exist in the User collection
Utilisateurs == {"A", "B"}
\* "Z" is referenced by a workflow entry but resolves to no user
RefsUtilisateur == Utilisateurs \cup {"Z"}
\* callers of the authenticated routes; "admin" has role administrateur and
\* is the creator of the documents
Appelants == Utilisateurs \cup {"admin"}

\* a date that is not set (null)
NullDate == -1
Dates == 0..MaxNow
\* daysToKeep values cleanup is called with, in clock units
JoursConserves == {0, 1}

\* an identifier that is not set (undefined, or null in a JSON body)
AucunId == "aucun"
\* the correlation id the Gateway issues for the signing request of document d
RequestIdDe(d) == "req-" \o d
RequestIds == {RequestIdDe(d) : d \in DocIds}

StatutsDocument ==
  {"brouillon", "en_attente_signature", "partiellement_signe", "signe",
   "rejete", "archive"}
StatutsSignature == {"en_attente", "signe", "rejete", "annule", "expire"}

WorkflowItem(u, o, obl) ==
  [utilisateur |-> u, ordre |-> o, obligatoire |-> obl, statut |-> "en_attente"]

\* workflowSignature lists a caller can submit: each entry names a user
\* reference and its obligatoire flag, ordre is the position in the list
RECURSIVE WorkflowsDeLongueur(_)
WorkflowsDeLongueur(n) ==
  IF n = 0 THEN {<<>>}
  ELSE {Append(w, WorkflowItem(u, n, obl)) :
          w \in WorkflowsDeLongueur(n - 1), u \in RefsUtilisateur, obl \in BOOLEAN}

Workflows == UNION {WorkflowsDeLongueur(n) : n \in 0..MaxWorkflow}

\* etat tells whether the id is still unused, names a stored document, or
\* named one that was deleted
DocumentLibre ==
  [etat |-> "libre", statut |-> "brouillon", workflowSignature |-> <<>>,
   signatureRequestId |-> AucunId, dateLimiteSignature |-> NullDate,
   dateCreation |-> 0, fichierSigne |-> FALSE, historique |-> <<>>]

DocumentSupprime == [DocumentLibre EXCEPT !.etat = "supprime"]

\* what a handler answers and the store it leaves; code is the HTTP status,
\* acces tells whether the store was read or written on the way, gateway
\* whether a Gateway operation was called
Resultat(code, acces, docs, sigs) ==
  [code |-> code, acces |-> acces, gateway |-> FALSE, documents |-> docs,
   signatures |-> sigs]

\* the same answer of a handler that called the Gateway on the way
AvecGateway(r) == [r EXCEPT !.gateway = TRUE]

\* a refusal: the store stays as it is
Refus(code, acces) == Resultat(code, acces, documents, signatures)

----------------------------------------------------------------------------
(* Document model *)

\* index of the first workflow entry of user u, 0 when there is none
\* (Array.prototype.find)
IndexWorkflow(wf, u) ==
  IF \E i \in 1..Len(wf) : wf[i].utilisateur = u
  THEN CHOOSE i \in 1..Len(wf) :
         /\ wf[i].utilisateur = u
         /\ \A j \in 1..(i - 1) : wf[j].utilisateur # u
  ELSE 0

\* estCompletementSigne with a slip: the obligatoire flag is not looked at
estCompletementSigneToutesEntrees(doc) ==
  LET entrees == 1..Len(doc.workflowSignature)
      completes == {i \in entrees : doc.workflowSignature[i].statut = "signe"}
  IN Cardinality(entrees) > 0 /\ Cardinality(completes) = Cardinality(entrees)

\* Document.estComplétementSigne()
estCompletementSigne(doc) ==
  LET obligatoires == {i \in 1..Len(doc.workflowSignature) :
                         doc.workflowSignature[i].obligatoire}
      completes == {i \in obligatoires : doc.workflowSignature[i].statut = "signe"}
  IN Cardinality(obligatoires) > 0 /\ Cardinality(completes) = Cardinality(obligatoires)

ajouterHistorique(obj, action) ==
  [obj EXCEPT !.historique = Append(@, action)]

----------------------------------------------------------------------------
(* Signature model *)

\* peutEtreSigne with a slip: still signable at the instant of expiration
peutEtreSigneJusquALExpiration(sig, t) ==
  /\ sig.statut = "en_attente"
  /\ (sig.dateExpiration = NullDate \/ sig.dateExpiration >= t)

peutEtreSigne(sig, t) ==
  /\ sig.statut = "en_attente"
  /\ (sig.dateExpiration = NullDate \/ sig.dateExpiration > t)

\* Signature.obtenirSignaturesEnAttente(utilisateurId): the records the find()
\* selects at time t; {dateExpiration: {$exists: false}} matches a record whose
\* field is absent, not one that stores null, and every record is created with
\* dateExpiration set to a date or to null
obtenirSignaturesEnAttente(sigs, u, t) ==
  {i \in 1..Len(sigs) :
     /\ sigs[i].signataire = u
     /\ sigs[i].statut = "en_attente"
     /\ sigs[i].dateExpiration # NullDate
     /\ sigs[i].dateExpiration > t}

\* indexes of the records of document d, in insertion order
SignaturesDe(sigs, d) == {i \in 1..Len(sigs) : sigs[i].document = d}

Min(S) == CHOOSE x \in S : \A y \in S : x <= y

----------------------------------------------------------------------------
(* Creation and dispatch *)

Init ==
  /\ documents = [d \in DocIds |-> DocumentLibre]
  /\ signatures = <<>>
  /\ now = 0
  /\ enCours = {}

\* POST /api/documents, d being the _id the new document gets: the validator
\* wants a dateLimiteSignature in the future
creerDocument(d, wf, limite) ==
  IF ~(limite = NullDate \/ limite > now)
  THEN Refus(400, FALSE)
  ELSE Resultat(201, TRUE,
         [documents EXCEPT ![d] =
            [etat |-> "present", statut |-> "brouillon", workflowSignature |-> wf,
             signatureRequestId |-> AucunId, dateLimiteSignature |-> limite,
             dateCreation |-> now, fichierSigne |-> FALSE,
             historique |-> <<"creation">>]],
         signatures)

\* new Signature({...}) of envoyerPourSignature, with the "creation" history entry
NouvelleSignature(d, item, limite) ==
  [document |-> d, signataire |-> item.utilisateur, statut |-> "en_attente",
   ordreSignature |-> item.ordre, dateExpiration |-> limite,
   signerId |-> AucunId, motifRejet |-> "", signUrl |-> FALSE,
   embeddedSignUrl |-> FALSE, signUrlExpiration |-> NullDate,
   historique |-> <<"creation">>]

\* ViolationIndexUnique of a schema without the index: no save is ever refused
ViolationIndexUniqueSansIndex(sigs, d, u) == FALSE

\* the unique index { document: 1, signataire: 1 }
ViolationIndexUnique(sigs, d, u) ==
  \E i \in 1..Len(sigs) : sigs[i].document = d /\ sigs[i].signataire = u

\* the creation loop of envoyerPourSignature from workflow entry i on: each
\* record is saved before the next one is built, a save that violates the
\* unique index throws and ends the loop (ok = FALSE)
RECURSIVE creerSignatures(_, _, _, _)
creerSignatures(sigs, doc, d, i) ==
  IF i > Len(doc.workflowSignature) THEN [sigs |-> sigs, ok |-> TRUE]
  ELSE IF ViolationIndexUnique(sigs, d, doc.workflowSignature[i].utilisateur)
  THEN [sigs |-> sigs, ok |-> FALSE]
  ELSE creerSignatures(
         Append(sigs, NouvelleSignature(d, doc.workflowSignature[i],
                                        doc.dateLimiteSignature)),
         doc, d, i + 1)

\* workflowResolu of a controller that does not look at the populated entries
workflowResoluSansControle(doc) == TRUE

\* the loop over the populated workflow: every entry resolved to a user
workflowResolu(doc) ==
  \A i \in 1..Len(doc.workflowSignature) :
    doc.workflowSignature[i].utilisateur \in Utilisateurs

\* outcomes of the Gateway call that creates the signing request: not made
\* (no API key), success, success = false, or an exception
ResultatsGatewayEnvoi == {"non_configure", "ok", "echec", "exception"}

\* POST /api/documents/:id/envoyer-signature, controller of part_002
envoyerPourSignature(d, appelant, gw) ==
  LET doc == documents[d]
  IN
  IF doc.etat # "present" THEN Refus(404, TRUE)
  ELSE IF appelant # "admin" THEN Refus(403, TRUE)
  ELSE IF Len(doc.workflowSignature) = 0 THEN Refus(400, TRUE)
  ELSE IF ~workflowResolu(doc) THEN Refus(400, TRUE)
  ELSE IF doc.statut # "brouillon" THEN Refus(400, TRUE)
  ELSE
    LET cree == IF SignaturesDe(signatures, d) = {}
                THEN creerSignatures(signatures, doc, d, 1)
                ELSE [sigs |-> signatures, ok |-> TRUE]
    IN
    IF ~cree.ok
    THEN \* a save threw: the outer catch answers 500, the records saved
         \* before it stay
         Resultat(500, TRUE, documents, cree.sigs)
    ELSE \* the Gateway result is logged and dropped whatever it is
         LET r == Resultat(200, TRUE,
                    [documents EXCEPT ![d] =
                       ajouterHistorique(
                         [doc EXCEPT !.statut = "en_attente_signature"],
                         "signature")],
                    cree.sigs)
         IN IF gw = "non_configure" THEN r ELSE AvecGateway(r)

ResultatsGatewayEnvoiV1 == {"ok", "echec", "exception"}

\* the other definition of envoyerPourSignature the repository holds (part_003):
\* the Gateway request comes first and no Signature record is created
envoyerPourSignatureV1(d, appelant, gw) ==
  LET doc == documents[d]
  IN
  IF doc.etat # "present" THEN Refus(404, TRUE)
  ELSE IF appelant # "admin" THEN Refus(403, TRUE)
  ELSE IF Len(doc.workflowSignature) = 0 \/ doc.statut # "brouillon"
  THEN Refus(400, TRUE)
  ELSE IF \E i \in 1..Len(doc.workflowSignature) :
            doc.workflowSignature[i].utilisateur \notin Utilisateurs
  THEN \* w.utilisateur.email on an unresolved reference throws
       Refus(500, TRUE)
  ELSE IF gw # "ok" THEN AvecGateway(Refus(500, TRUE))
  ELSE AvecGateway(Resultat(200, TRUE,
         [documents EXCEPT ![d] =
            ajouterHistorique(
              [doc EXCEPT !.signatureRequestId = RequestIdDe(d),
                          !.statut = "en_attente_signature"],
              "signature")],
         signatures))

----------------------------------------------------------------------------
(* Local sign and reject *)

\* signature.populate("document"): the stored Document, or null once it is deleted
DocumentPeuple(sig) == documents[sig.document].etat = "present"

\* what obtenirStatutDemande and the lookup of the signer's entry can give:
\* the signer's entry with status signed or awaiting_signature, no entry for the
\* signer's email, or a failed call
ResultatsGatewayStatut == {"signed", "awaiting_signature", "introuvable", "echec"}

\* obtenirStatutDemande(id): signatureRequestGet on an id that is not set throws,
\* which the service turns into success = false
obtenirStatutDemande(id, gw) == IF id = AucunId THEN "echec" ELSE gw

\* the document after the signer's workflow entry is marked and the statut is
\* derived from the workflow (signerDocument, normal branch)
documentApresSignature(doc, u) ==
  LET k == IndexWorkflow(doc.workflowSignature, u)
      marque == IF k = 0 THEN doc
                ELSE [doc EXCEPT !.workflowSignature[k].statut = "signe"]
      derive == IF estCompletementSigne(marque)
                THEN [marque EXCEPT !.statut = "signe"]
                ELSE [marque EXCEPT !.statut = "partiellement_signe"]
  IN ajouterHistorique(derive, "signature")

\* signerApresEchec with a slip: the failure of the status query is passed on to
\* the outer catch, which answers 500 and saves nothing
signerApresEchecPropage(s) == Refus(500, TRUE)

\* the catch (dropboxError) branch of signerDocument: the record is marked signe
\* and saved, the answer is a success with a warning
signerApresEchec(s) ==
  Resultat(200, TRUE, documents,
    [signatures EXCEPT ![s] =
       ajouterHistorique([@ EXCEPT !.statut = "signe"], "signature")])

\* POST /api/signatures/:id/signer: verifierPermissionsSignature("signer"), then
\* the controller
signerDocument(s, appelant, gw) ==
  LET sig == signatures[s]
      signee == ajouterHistorique([sig EXCEPT !.statut = "signe"], "signature")
      signees == [signatures EXCEPT ![s] = signee]
  IN
  IF ~(sig.signataire = appelant /\ sig.statut = "en_attente") THEN Refus(403, TRUE)
  ELSE IF ~peutEtreSigne(sig, now) THEN Refus(400, TRUE)
  ELSE IF ~DocumentPeuple(sig)
  THEN \* signature.document.dropboxSign throws on null: catch branch
       signerApresEchec(s)
  ELSE IF obtenirStatutDemande(documents[sig.document].signatureRequestId, gw)
            \in {"signed", "awaiting_signature"}
  THEN AvecGateway(Resultat(200, TRUE,
         [documents EXCEPT ![sig.document] =
            documentApresSignature(@, sig.signataire)],
         signees))
  ELSE \* catch (dropboxError): the record is signed, the document is not touched
       AvecGateway(signerApresEchec(s))

\* Signature.genererURLSignature(): the stored dropboxSign.signUrl when it is set
\* and dropboxSign.signUrlExpiration is later than t, null (FALSE) otherwise
genererURLSignature(sig, t) ==
  /\ sig.signUrl
  /\ sig.signUrlExpiration # NullDate
  /\ sig.signUrlExpiration > t

\* outcomes of creerDemandeSignatureIntegree
ResultatsGatewayIntegree == {"ok", "echec"}

\* GET /api/signatures/:id/url-signature: verifierPermissionsSignature("signer"),
\* then the controller; the URL the Gateway gives expires one tick later and is
\* stored in dropboxSign.embeddedSignUrl
obtenirURLSignature(s, appelant, gw) ==
  LET sig == signatures[s]
  IN
  IF ~(sig.signataire = appelant /\ sig.statut = "en_attente") THEN Refus(403, TRUE)
  ELSE IF ~peutEtreSigne(sig, now) THEN Refus(400, TRUE)
  ELSE IF genererURLSignature(sig, now) THEN Refus(200, TRUE)
  ELSE IF ~DocumentPeuple(sig)
  THEN \* signature.document.titre throws on null: catch (dropboxError)
       Refus(500, TRUE)
  ELSE IF gw # "ok" THEN AvecGateway(Refus(500, TRUE))
  ELSE AvecGateway(Resultat(200, TRUE, documents,
         [signatures EXCEPT ![s].embeddedSignUrl = TRUE,
                            ![s].signUrlExpiration = now + 1]))

\* motifRejet of the request body; "" is a missing one
Motifs == {"", "montant incorrect"}

\* the document after a local rejection
documentApresRejet(doc, u) ==
  LET k == IndexWorkflow(doc.workflowSignature, u)
      rejete == [doc EXCEPT !.statut = "rejete"]
      marque == IF k = 0 THEN rejete
                ELSE [rejete EXCEPT !.workflowSignature[k].statut = "rejete"]
  IN ajouterHistorique(marque, "rejet")

\* signaturesApresRejet with a slip: the rejection also cancels the records of the
\* other signers of the document that are still pending
signaturesApresRejetAnnulantAutres(sigs, s, motif) ==
  [i \in 1..Len(sigs) |->
     IF i = s
     THEN ajouterHistorique([sigs[i] EXCEPT !.statut = "rejete", !.motifRejet = motif],
                            "rejet")
     ELSE IF sigs[i].document = sigs[s].document /\ sigs[i].statut = "en_attente"
     THEN [sigs[i] EXCEPT !.statut = "annule"]
     ELSE sigs[i]]

\* the records after record s is rejected with the given reason
signaturesApresRejet(sigs, s, motif) ==
  [sigs EXCEPT ![s] =
     ajouterHistorique([@ EXCEPT !.statut = "rejete", !.motifRejet = motif], "rejet")]

\* POST /api/signatures/:id/rejeter: verifierPermissionsSignature("rejeter"), then
\* the controller
rejeterSignature(s, appelant, motif) ==
  LET sig == signatures[s]
  IN
  IF ~(sig.signataire = appelant /\ sig.statut = "en_attente") THEN Refus(403, TRUE)
  ELSE IF motif = "" THEN Refus(400, TRUE)
  ELSE IF sig.statut # "en_attente" THEN Refus(400, TRUE)
  ELSE IF ~DocumentPeuple(sig)
  THEN \* the record is saved, then document.statut = ... throws on null
       Resultat(500, TRUE, documents, signaturesApresRejet(signatures, s, motif))
  ELSE Resultat(200, TRUE,
         [documents EXCEPT ![sig.document] = documentApresRejet(@, sig.signataire)],
         signaturesApresRejet(signatures, s, motif))

----------------------------------------------------------------------------
(* Inbound events and reconciliation *)

TypesMetier ==
  {"signature_request_sent", "signature_request_viewed", "signature_request_signed",
   "signature_request_all_signed", "signature_request_declined",
   "signature_request_error"}
TypesEvenement == TypesMetier \cup {"callback_test", "autre"}

EntreePayload(id, code, raison) ==
  [signature_id |-> id, status_code |-> code, decline_reason |-> raison]

\* entries of signature_request.signatures; a signature_id of AucunId is a JSON
\* null, which the store's equality filter matches against a record whose
\* dropboxSign.signerId was never set
EntreesPayload ==
  {EntreePayload(i, "signed", "") : i \in {AucunId, "sg-1"}}
  \cup {EntreePayload(i, "declined", "refus") : i \in {AucunId, "sg-1"}}
  \cup {EntreePayload("sg-1", "awaiting_signature", ""),
        EntreePayload("sg-1", "declined", ""),
        EntreePayload(AucunId, "declined", "")}

RECURSIVE PayloadsDeLongueur(_)
PayloadsDeLongueur(n) ==
  IF n = 0 THEN {<<>>}
  ELSE {Append(p, e) : p \in PayloadsDeLongueur(n - 1), e \in EntreesPayload}

Payloads == UNION {PayloadsDeLongueur(n) : n \in 0..MaxPayload}

\* the parsed body: json is FALSE when req.body.json is missing, sr is FALSE when
\* signature_request is missing, id is "" when signature_request_id is missing,
\* liste is FALSE when signature_request.signatures is missing
Evenement(json, type, sr, id, liste, payload) ==
  [json |-> json, type |-> type, sr |-> sr, id |-> id, liste |-> liste,
   signatures |-> payload]

Evenements ==
  {Evenement(FALSE, "autre", FALSE, "", FALSE, <<>>)}
  \cup {Evenement(TRUE, t, FALSE, "", FALSE, <<>>) : t \in TypesEvenement}
  \cup {Evenement(TRUE, t, TRUE, id, FALSE, <<>>) : t \in TypesEvenement, id \in RequestIds}
  \cup {Evenement(TRUE, "signature_request_signed", TRUE, id, FALSE, <<>>) :
          id \in {"", "req-inconnu"}}
  \cup {Evenement(TRUE, t, TRUE, id, TRUE, p) :
          t \in {"signature_request_signed", "signature_request_declined"},
          id \in RequestIds, p \in Payloads}

\* Signature.updateOne({document, "dropboxSign.signerId": id}, ...): the record the
\* filter selects, 0 when none matches; the filter does not look at statut
CibleUpdateOne(sigs, d, id) ==
  LET cibles == {i \in SignaturesDe(sigs, d) : sigs[i].signerId = id}
  IN IF cibles = {} THEN 0 ELSE Min(cibles)

\* the loop of synchroniserSignature over the payload from entry i on; $set
\* writes the statut and pushes no history entry
RECURSIVE signerSelonPayload(_, _, _, _)
signerSelonPayload(sigs, d, payload, i) ==
  IF i > Len(payload) THEN sigs
  ELSE IF payload[i].status_code = "signed"
  THEN LET k == CibleUpdateOne(sigs, d, payload[i].signature_id)
       IN signerSelonPayload(
            IF k = 0 THEN sigs ELSE [sigs EXCEPT ![k].statut = "signe"],
            d, payload, i + 1)
  ELSE signerSelonPayload(sigs, d, payload, i + 1)

\* the statut synchroniserSignature gives the document: from the payload alone
statutSelonPayload(payload) ==
  IF \A i \in 1..Len(payload) : payload[i].status_code = "signed"
  THEN "signe" ELSE "partiellement_signe"

\* synchroniserSignature: the workflow lookup compares w.utilisateur.email on a
\* document loaded without populate, so it finds no entry and the workflow stays
synchroniserSignature(docs, sigs, d, payload) ==
  [documents |-> [docs EXCEPT ![d].statut = statutSelonPayload(payload)],
   signatures |-> signerSelonPayload(sigs, d, payload, 1)]

\* what the Gateway would answer to signatureRequestFiles: the signed PDF, or a
\* failure
ResultatsGatewayFichiers == {"ok", "echec"}

\* synchroniserDocumentComplet (the last definition): the download that follows
\* goes through exports.telechargerDocumentSigne, whose this.client is undefined,
\* so it always ends in its own catch and no signed-file reference is written
synchroniserDocumentComplet(docs, sigs, d) ==
  [documents |-> [docs EXCEPT ![d].statut = "signe"], signatures |-> sigs]

\* synchroniserRejet with a slip: the reported reason is stored as it comes, with
\* no placeholder when it is missing
synchroniserRejetSansMotifParDefaut(docs, sigs, d, payload) ==
  LET declines == {i \in 1..Len(payload) : payload[i].status_code = "declined"}
  IN IF declines = {} THEN [documents |-> docs, signatures |-> sigs]
     ELSE LET e == payload[Min(declines)]
              k == CibleUpdateOne(sigs, d, e.signature_id)
          IN [documents |-> [docs EXCEPT ![d].statut = "rejete"],
              signatures |->
                IF k = 0 THEN sigs
                ELSE [sigs EXCEPT ![k].statut = "rejete",
                                  ![k].motifRejet = e.decline_reason]]

\* synchroniserRejet (the last definition)
synchroniserRejet(docs, sigs, d, payload) ==
  LET declines == {i \in 1..Len(payload) : payload[i].status_code = "declined"}
  IN IF declines = {} THEN [documents |-> docs, signatures |-> sigs]
     ELSE LET e == payload[Min(declines)]
              k == CibleUpdateOne(sigs, d, e.signature_id)
              motif == IF e.decline_reason = "" THEN "Non specifie"
                       ELSE e.decline_reason
          IN [documents |-> [docs EXCEPT ![d].statut = "rejete"],
              signatures |->
                IF k = 0 THEN sigs
                ELSE [sigs EXCEPT ![k].statut = "rejete", ![k].motifRejet = motif]]

\* Document.findOne({"dropboxSign.signatureRequestId": id})
DocumentsParRequestId(docs, id) ==
  {d \in DocIds : docs[d].etat = "present" /\ docs[d].signatureRequestId = id}

\* synchroniserAvecDropboxSign with a slip: an error event is handled as a
\* refusal of the request and marks the document rejete
synchroniserAvecDropboxSignErreurRejette(docs, sigs, ev) ==
  LET inchange == [documents |-> docs, signatures |-> sigs]
  IN IF ev.type = "callback_test" THEN inchange
     ELSE IF ~ev.sr \/ ev.id = "" THEN inchange
     ELSE IF DocumentsParRequestId(docs, ev.id) = {} THEN inchange
     ELSE LET d == CHOOSE x \in DocumentsParRequestId(docs, ev.id) : TRUE
          IN CASE ev.type = "signature_request_signed" ->
                    IF ev.liste
                    THEN synchroniserSignature(docs, sigs, d, ev.signatures)
                    ELSE inchange
               [] ev.type = "signature_request_all_signed" ->
                    synchroniserDocumentComplet(docs, sigs, d)
               [] ev.type = "signature_request_declined" ->
                    IF ev.liste
                    THEN synchroniserRejet(docs, sigs, d, ev.signatures)
                    ELSE inchange
               [] ev.type = "signature_request_error" ->
                    [documents |-> [docs EXCEPT ![d].statut = "rejete"],
                     signatures |-> sigs]
               [] OTHER -> inchange

\* synchroniserAvecDropboxSign: the store after the event; an exception (a
\* signatures list that is missing) is caught and leaves the store as it is
synchroniserAvecDropboxSign(docs, sigs, ev) ==
  LET inchange == [documents |-> docs, signatures |-> sigs]
  IN IF ev.type = "callback_test" THEN inchange
     ELSE IF ~ev.sr \/ ev.id = "" THEN inchange
     ELSE IF DocumentsParRequestId(docs, ev.id) = {} THEN inchange
     ELSE LET d == CHOOSE x \in DocumentsParRequestId(docs, ev.id) : TRUE
          IN CASE ev.type = "signature_request_signed" ->
                    IF ev.liste
                    THEN synchroniserSignature(docs, sigs, d, ev.signatures)
                    ELSE inchange
               [] ev.type = "signature_request_all_signed" ->
                    synchroniserDocumentComplet(docs, sigs, d)
               [] ev.type = "signature_request_declined" ->
                    IF ev.liste
                    THEN synchroniserRejet(docs, sigs, d, ev.signatures)
                    ELSE inchange
               [] OTHER -> inchange

\* traiterEvenementWebhook: the handlers of the business types read
\* signatureRequest.signature_request_id and throw when signature_request is missing
traiterEvenementWebhook(ev) ==
  IF ev.type \in TypesMetier /\ ~ev.sr THEN FALSE ELSE TRUE

\* the authenticity verdict webhookDropboxSign acts on:
\* "const isValidSignature = true", whatever the event hash is
isValidSignature(authentique) == TRUE

\* POST /api/signatures/webhook/dropbox-sign; authentique tells whether the event
\* hash of the request is the one verifierSignatureWebhook computes
webhookDropboxSign(ev, authentique) ==
  LET apres == synchroniserAvecDropboxSign(documents, signatures, ev)
  IN
  IF ~isValidSignature(authentique) THEN Refus(401, FALSE)
  ELSE IF ~ev.json THEN Refus(400, FALSE)
  ELSE IF ~traiterEvenementWebhook(ev) THEN Refus(500, FALSE)
  ELSE Resultat(200, ev.type # "callback_test" /\ ev.sr /\ ev.id # "",
                apres.documents, apres.signatures)

\* the event POST /sync/dropbox-sign builds from obtenirStatutDemande's data: the
\* data carries signatureRequestId, not signature_request_id, and the event
\* type is "sync_manual"
EvenementSyncManuelle(payload) ==
  Evenement(TRUE, "sync_manual", TRUE, "", TRUE, payload)

\* POST /api/signatures/sync/dropbox-sign; payload is the provider-side state
\* obtenirStatutDemande returns when gw = "ok"
synchronisationManuelle(appelant, id, gw, payload) ==
  LET apres == synchroniserAvecDropboxSign(documents, signatures,
                                           EvenementSyncManuelle(payload))
  IN
  IF appelant # "admin" THEN Refus(403, FALSE)
  ELSE IF id = "" THEN Refus(400, FALSE)
  ELSE IF gw # "ok" THEN AvecGateway(Refus(500, FALSE))
  ELSE AvecGateway(Resultat(200, FALSE, apres.documents, apres.signatures))

----------------------------------------------------------------------------
(* Archival, cleanup, expiration sweep, deletion *)

\* POST /api/documents/:id/archiver: verifierPermissionsDocument("modifier"),
\* then the route handler
archiverDocument(d, appelant) ==
  LET doc == documents[d]
  IN
  IF doc.etat # "present" THEN Refus(404, TRUE)
  ELSE IF appelant # "admin" THEN Refus(403, TRUE)
  ELSE IF doc.statut # "signe" THEN Refus(400, TRUE)
  ELSE Resultat(200, TRUE,
         [documents EXCEPT ![d] =
            ajouterHistorique([doc EXCEPT !.statut = "archive"], "archivage")],
         signatures)

\* Signature.nettoyerSignaturesExpirees: updateMany on
\* {statut: "en_attente", dateExpiration: {$lte: now}}; a null dateExpiration
\* matches no $lte on a date
\* signaturesApresNettoyage with a slip: the filter compares dateExpiration
\* without excluding the records that have none
signaturesApresNettoyageSansDate(sigs, t) ==
  [i \in 1..Len(sigs) |->
     IF sigs[i].statut = "en_attente" /\ sigs[i].dateExpiration <= t
     THEN [sigs[i] EXCEPT !.statut = "expire"]
     ELSE sigs[i]]

signaturesApresNettoyage(sigs, t) ==
  [i \in 1..Len(sigs) |->
     IF sigs[i].statut = "en_attente" /\ sigs[i].dateExpiration # NullDate
        /\ sigs[i].dateExpiration <= t
     THEN [sigs[i] EXCEPT !.statut = "expire"]
     ELSE sigs[i]]

\* the filter of cleanup's Document.updateMany: the object literal names statut
\* twice, the later {$ne: "archive"} replaces "signe"
filtreCleanup(doc, cutoff) ==
  /\ doc.etat = "present"
  /\ doc.dateCreation < cutoff
  /\ doc.statut # "archive"

\* DatabaseConfig.cleanup(daysToKeep): archives the documents the filter selects,
\* then runs the expiration sweep
cleanup(daysToKeep) ==
  Resultat(0, TRUE,
    [d \in DocIds |->
       IF filtreCleanup(documents[d], now - daysToKeep)
       THEN [documents[d] EXCEPT !.statut = "archive"]
       ELSE documents[d]],
    signaturesApresNettoyage(signatures, now))

\* the scheduled job of NotificationService.demarrerTachesPlanifiees
nettoyerSignaturesExpirees ==
  Resultat(0, TRUE, documents, signaturesApresNettoyage(signatures, now))

\* scripts/repareSignatures.js: the first document it finds with a workflow and a
\* statut of en_attente_signature, partiellement_signe or signe is asked for
\* verifierCoherenceSignatures(), which the Document model does not define; the
\* TypeError ends the script in its catch before any record is created or deleted
repareSignaturesManquantes ==
  Resultat(0, TRUE, documents, signatures)

\* DELETE /api/documents/:id: the Signature records of the document are left
supprimerDocument(d, appelant) ==
  LET doc == documents[d]
  IN
  IF doc.etat # "present" THEN Refus(404, TRUE)
  ELSE IF appelant # "admin" THEN Refus(403, TRUE)
  ELSE IF doc.statut = "signe" THEN Refus(400, TRUE)
  ELSE LET r == Resultat(200, TRUE, [documents EXCEPT ![d] = DocumentSupprime],
                         signatures)
       IN \* annulerDemande is called when the document has a request id
          IF doc.signatureRequestId # AucunId THEN AvecGateway(r) ELSE r

----------------------------------------------------------------------------
(* The system *)

\* the store after a handler or a job has run
Appliquer(r) ==
  /\ documents' = r.documents
  /\ signatures' = r.signatures
  /\ UNCHANGED <<now, enCours>>

Tick ==
  /\ now < MaxNow
  /\ now' = now + 1
  /\ UNCHANGED <<documents, signatures, enCours>>

Next ==
  \/ \E d \in DocIds, wf \in Workflows, limite \in {NullDate} \cup Dates :
       /\ documents[d].etat = "libre"
       /\ Appliquer(creerDocument(d, wf, limite))
  \/ \E d \in DocIds, a \in Appelants, gw \in ResultatsGatewayEnvoi :
       Appliquer(envoyerPourSignature(d, a, gw))
  \/ \E d \in DocIds, a \in Appelants, gw \in ResultatsGatewayEnvoiV1 :
       Appliquer(envoyerPourSignatureV1(d, a, gw))
  \/ \E s \in 1..Len(signatures), a \in Appelants, gw \in ResultatsGatewayStatut :
       Appliquer(signerDocument(s, a, gw))
  \/ \E s \in 1..Len(signatures), a \in Appelants,
        gw \in ResultatsGatewayIntegree :
       Appliquer(obtenirURLSignature(s, a, gw))
  \/ \E s \in 1..Len(signatures), a \in Appelants, m \in Motifs :
       Appliquer(rejeterSignature(s, a, m))
  \/ \E ev \in Evenements, authentique \in BOOLEAN :
       Appliquer(webhookDropboxSign(ev, authentique))
  \/ \E a \in Appelants, id \in {""} \cup RequestIds, gw \in {"ok", "echec"} :
       \E p \in IF a = "admin" /\ id # "" /\ gw = "ok" THEN Payloads ELSE {<<>>} :
         Appliquer(synchronisationManuelle(a, id, gw, p))
  \/ \E d \in DocIds, a \in Appelants :
       /\ Len(documents[d].historique) < MaxHistorique
       /\ Appliquer(archiverDocument(d, a))
  \/ \E j \in JoursConserves : Appliquer(cleanup(j))
  \/ Appliquer(nettoyerSignaturesExpirees)
  \/ Appliquer(repareSignaturesManquantes)
  \/ \E d \in DocIds, a \in Appelants : Appliquer(supprimerDocument(d, a))
  \/ Tick

Spec == Init /\ [][Next]_vars

----------------------------------------------------------------------------
(* signerDocument and rejeterSignature step by step *)

\* a call in progress: the handler (op), the record it loaded (s), the await it
\* is at (etape), the branch the Gateway query led to, the reason of a
\* rejection, and doc, the copy of the document populate() loaded
Operation(op, s, etape, branche, motif, doc) ==
  [op |-> op, s |-> s, etape |-> etape, branche |-> branche, motif |-> motif,
   doc |-> doc]

\* document.save() of a copy loaded as `charge` and changed to `modifie`, on the
\* stored document `stocke`: only the modified paths are written (the workflow
\* entry k, statut when it differs from the loaded one), the history entry is
\* pushed; nothing is compared with what is stored
saveDocument(stocke, charge, modifie, k, action) ==
  LET entree == IF k = 0 THEN stocke
                ELSE [stocke EXCEPT !.workflowSignature[k].statut =
                                      modifie.workflowSignature[k].statut]
      statut == IF modifie.statut # charge.statut
                THEN [entree EXCEPT !.statut = modifie.statut]
                ELSE entree
  IN ajouterHistorique(statut, action)

\* signerDocument up to its first write: findById + populate, the checks, the
\* Gateway status query; a refused call ends here and leaves nothing
LireSignerDocument(s, appelant, gw) ==
  LET sig == signatures[s]
      branche == IF DocumentPeuple(sig)
                    /\ obtenirStatutDemande(
                         documents[sig.document].signatureRequestId, gw)
                       \in {"signed", "awaiting_signature"}
                 THEN "normale" ELSE "echec"
  IN /\ Cardinality(enCours) < MaxEnCours
     /\ signerDocument(s, appelant, gw).code = 200
     /\ enCours' = enCours \cup
          {Operation("signer", s, "signature", branche, "",
                     documents[sig.document])}
     /\ UNCHANGED <<documents, signatures, now>>

\* rejeterSignature up to its first write
LireRejeterSignature(s, appelant, motif) ==
  LET sig == signatures[s]
  IN /\ Cardinality(enCours) < MaxEnCours
     /\ rejeterSignature(s, appelant, motif).code \in {200, 500}
     /\ enCours' = enCours \cup
          {Operation("rejeter", s, "signature", "normale", motif,
                     documents[sig.document])}
     /\ UNCHANGED <<documents, signatures, now>>

\* await signature.save(): statut and the pushed history entry are written on
\* the stored record whatever its statut has become; the failure branch of
\* signerDocument and a rejection whose document is gone end here
SaveSignature(o) ==
  /\ o \in enCours
  /\ o.etape = "signature"
  /\ signatures' =
       IF o.op = "signer"
       THEN [signatures EXCEPT ![o.s] =
               ajouterHistorique([@ EXCEPT !.statut = "signe"], "signature")]
       ELSE signaturesApresRejet(signatures, o.s, o.motif)
  /\ enCours' =
       IF o.branche = "echec" \/ o.doc.etat # "present"
       THEN enCours \ {o}
       ELSE (enCours \ {o}) \cup {[o EXCEPT !.etape = "document"]}
  /\ UNCHANGED <<documents, now>>

\* await document.save(): the workflow entry and the statut were computed on the
\* copy loaded at the start of the call
SaveDocument(o) ==
  LET d == signatures[o.s].document
      u == signatures[o.s].signataire
      k == IndexWorkflow(o.doc.workflowSignature, u)
      modifie == IF o.op = "signer" THEN documentApresSignature(o.doc, u)
                 ELSE documentApresRejet(o.doc, u)
      action == IF o.op = "signer" THEN "signature" ELSE "rejet"
  IN /\ o \in enCours
     /\ o.etape = "document"
     /\ documents' =
          IF documents[d].etat = "present"
          THEN [documents EXCEPT ![d] = saveDocument(@, o.doc, modifie, k, action)]
          ELSE documents
     /\ enCours' = enCours \ {o}
     /\ UNCHANGED <<signatures, now>>

NextConcurrent ==
  \/ \E d \in DocIds, wf \in Workflows, limite \in {NullDate} \cup Dates :
       /\ documents[d].etat = "libre"
       /\ Appliquer(creerDocument(d, wf, limite))
  \/ \E d \in DocIds, gw \in ResultatsGatewayEnvoi :
       Appliquer(envoyerPourSignature(d, "admin", gw))
  \/ \E d \in DocIds, gw \in ResultatsGatewayEnvoiV1 :
       Appliquer(envoyerPourSignatureV1(d, "admin", gw))
  \/ \E s \in 1..Len(signatures), a \in Utilisateurs,
        gw \in ResultatsGatewayStatut : LireSignerDocument(s, a, gw)
  \/ \E s \in 1..Len(signatures), a \in Utilisateurs, m \in Motifs :
       LireRejeterSignature(s, a, m)
  \/ \E o \in enCours : SaveSignature(o)
  \/ \E o \in enCours : SaveDocument(o)
  \/ Appliquer(nettoyerSignaturesExpirees)
  \/ Tick

SpecConcurrent == Init /\ [][NextConcurrent]_vars

----------------------------------------------------------------------------
(* estComplétementSigne over every workflow *)

\* statut values a workflow entry takes
StatutsEntree == {"en_attente", "signe", "rejete", "annule"}

\* the workflows a stored document can carry: any list a caller can submit, each
\* entry in any statut
WorkflowsStockes ==
  {[i \in 1..Len(wf) |-> [wf[i] EXCEPT !.statut = f[i]]] :
     wf \in Workflows, f \in [1..MaxWorkflow -> StatutsEntree]}

\* a stored document in the middle of its signing, with any workflow
InitWorkflows ==
  /\ documents \in
       [DocIds -> {[DocumentLibre EXCEPT !.etat = "present",
                                         !.statut = "en_attente_signature",
                                         !.workflowSignature = wf,
                                         !.historique = <<"creation">>] :
                     wf \in WorkflowsStockes}]
  /\ signatures = <<>>
  /\ now = 0
  /\ enCours = {}

\* the document part of signerDocument for user u: the entry of u is marked and
\* the statut is derived with estComplétementSigne()
MarquerSignature(d, u) ==
  /\ Len(documents[d].historique) < MaxHistorique
  /\ documents' = [documents EXCEPT ![d] = documentApresSignature(@, u)]
  /\ UNCHANGED <<signatures, now, enCours>>

NextWorkflows == \E d \in DocIds, u \in Utilisateurs : MarquerSignature(d, u)

SpecWorkflows == InitWorkflows /\ [][NextWorkflows]_vars

----------------------------------------------------------------------------
(* Properties *)

StatutsTerminaux == {"signe", "rejete", "annule", "expire"}

\* C1: a stored document has statut 'signe' exactly when estCompletementSigne
\* holds of it (at least one obligatoire entry, all obligatoire entries 'signe');
\* the only exception to the converse is a document that was archived
C1_SigneSsiCompletementSigne ==
  \A d \in DocIds :
    documents[d].etat = "present" =>
      /\ documents[d].statut = "signe" => estCompletementSigne(documents[d])
      /\ estCompletementSigne(documents[d]) =>
           documents[d].statut \in {"signe", "archive"}

\* C2: once a Signature record has statut 'signe', 'rejete', 'expire' or 'annule',
\* no step of the system (sign, reject, webhook event, manual resync, sweep,
\* cleanup) changes its statut
C2_StatutTerminalFige ==
  [][\A i \in 1..Len(signatures) :
       signatures[i].statut \in StatutsTerminaux =>
         /\ i <= Len(signatures')
         /\ signatures'[i].statut = signatures[i].statut]_vars

\* number of "signature" entries in the histories of document d and its records
EntreesSignature(docs, sigs, d) ==
  LET nb(h) == Cardinality({k \in 1..Len(h) : h[k] = "signature"})
      RECURSIVE somme(_)
      somme(S) == IF S = {} THEN 0
                  ELSE LET i == Min(S) IN nb(sigs[i].historique) + somme(S \ {i})
  IN nb(docs[d].historique) + somme(SignaturesDe(sigs, d))

\* C3: a signature_request_signed event for one signer, processed twice, leaves
\* the store as the first processing left it, and the first processing adds
\* exactly one history entry for the signature
C3_SigneDeuxFois ==
  \A ev \in Evenements :
    (/\ ev.type = "signature_request_signed"
     /\ ev.liste /\ Len(ev.signatures) = 1
     /\ ev.signatures[1].status_code = "signed"
     /\ DocumentsParRequestId(documents, ev.id) # {}) =>
      LET d == CHOOSE x \in DocumentsParRequestId(documents, ev.id) : TRUE
          un == synchroniserAvecDropboxSign(documents, signatures, ev)
          deux == synchroniserAvecDropboxSign(un.documents, un.signatures, ev)
      IN /\ deux = un
         /\ EntreesSignature(un.documents, un.signatures, d)
              = EntreesSignature(documents, signatures, d) + 1

\* C4: an inbound event that fails the authenticity check is answered 401 and
\* no Document or Signature record is read or written
C4_NonAuthentiqueRefuse ==
  \A ev \in Evenements :
    LET r == webhookDropboxSign(ev, FALSE)
    IN /\ r.code = 401
       /\ ~r.acces
       /\ r.documents = documents
       /\ r.signatures = signatures

\* the workflow of document doc is A (ordre 1) then B (ordre 2), both obligatoire
WorkflowAB(doc) ==
  /\ Len(doc.workflowSignature) = 2
  /\ doc.workflowSignature[1].utilisateur = "A"
  /\ doc.workflowSignature[2].utilisateur = "B"
  /\ \A i \in 1..2 : doc.workflowSignature[i].obligatoire

\* C5: for a workflow A, B (both obligatoire): dispatch creates two en_attente
\* records and sets the document to en_attente_signature; the first of A and B
\* to sign through signerDocument makes the document partiellement_signe, the
\* second makes it signe
C5_DeuxSignataires ==
  \A d \in DocIds :
    LET doc == documents[d]
        siens == SignaturesDe(signatures, d)
    IN
    (doc.etat = "present" /\ WorkflowAB(doc)) =>
      /\ (doc.statut = "brouillon" /\ siens = {}) =>
           \A gw \in ResultatsGatewayEnvoi :
             LET r == envoyerPourSignature(d, "admin", gw)
                 crees == SignaturesDe(r.signatures, d)
             IN /\ r.documents[d].statut = "en_attente_signature"
                /\ Cardinality(crees) = 2
                /\ \A i \in crees : r.signatures[i].statut = "en_attente"
      /\ \A s \in siens, gw \in ResultatsGatewayStatut :
           LET r == signerDocument(s, signatures[s].signataire, gw)
               autres == siens \ {s}
           IN (r.code = 200 /\ Cardinality(siens) = 2) =>
                /\ (/\ doc.statut = "en_attente_signature"
                    /\ \A j \in autres : signatures[j].statut = "en_attente")
                     => r.documents[d].statut = "partiellement_signe"
                /\ (/\ doc.statut = "partiellement_signe"
                    /\ \A j \in autres : signatures[j].statut = "signe")
                     => r.documents[d].statut = "signe"

\* C6: when a signer rejects through rejeterSignature, the signer's record
\* becomes rejete with the reason given, the document becomes rejete, and every
\* other record is left exactly as it was
C6_RejetLaisseLesAutres ==
  \A s \in 1..Len(signatures), a \in Appelants, m \in Motifs :
    LET r == rejeterSignature(s, a, m)
    IN r.code = 200 =>
         /\ r.signatures[s].statut = "rejete"
         /\ r.signatures[s].motifRejet = m /\ m # ""
         /\ r.documents[signatures[s].document].statut = "rejete"
         /\ Len(r.signatures) = Len(signatures)
         /\ \A j \in 1..Len(signatures) : j # s => r.signatures[j] = signatures[j]

\* A has rejected with a reason, the document is rejete and B's record of the
\* same document is still en_attente
C6_Temoin ==
  \E i, j \in 1..Len(signatures) :
    /\ signatures[i].document = signatures[j].document
    /\ signatures[i].signataire = "A" /\ signatures[j].signataire = "B"
    /\ signatures[i].statut = "rejete"
    /\ signatures[i].motifRejet = "montant incorrect"
    /\ signatures[j].statut = "en_attente"
    /\ documents[signatures[i].document].statut = "rejete"

\* a brouillon document that dispatch accepts: its workflow names existing,
\* distinct users and it has no record yet
Envoyable(d) ==
  LET wf == documents[d].workflowSignature
  IN /\ documents[d].etat = "present"
     /\ documents[d].statut = "brouillon"
     /\ Len(wf) > 0
     /\ \A i \in 1..Len(wf) : wf[i].utilisateur \in Utilisateurs
     /\ \A i, j \in 1..Len(wf) : wf[i].utilisateur = wf[j].utilisateur => i = j
     /\ SignaturesDe(signatures, d) = {}

\* what C7 asks of the answer r of a dispatch of document d
EnvoiAbouti(d, r) ==
  /\ r.code = 200
  /\ r.documents[d].statut = "en_attente_signature"
  /\ \A i \in 1..Len(documents[d].workflowSignature) :
       \E k \in SignaturesDe(r.signatures, d) :
         /\ r.signatures[k].signataire = documents[d].workflowSignature[i].utilisateur
         /\ r.signatures[k].statut = "en_attente"

\* C7: when the Gateway call that creates the signing request fails (success =
\* false, or an exception) during envoyerPourSignature, the records are still
\* created, the document still goes from brouillon to en_attente_signature and
\* the answer is a success
C7_EchecGatewayEnvoi ==
  \A d \in DocIds, gw \in {"echec", "exception"} :
    Envoyable(d) =>
      /\ EnvoiAbouti(d, envoyerPourSignature(d, "admin", gw))
      /\ EnvoiAbouti(d, envoyerPourSignatureV1(d, "admin", gw))

\* the webhook event that reports the provider-side state `payload` of request
\* id: declined when a signer declined, all_signed when every signer signed,
\* signed otherwise
EvenementEquivalent(id, payload) ==
  IF \E i \in 1..Len(payload) : payload[i].status_code = "declined"
  THEN Evenement(TRUE, "signature_request_declined", TRUE, id, TRUE, payload)
  ELSE IF \A i \in 1..Len(payload) : payload[i].status_code = "signed"
  THEN Evenement(TRUE, "signature_request_all_signed", TRUE, id, TRUE, payload)
  ELSE Evenement(TRUE, "signature_request_signed", TRUE, id, TRUE, payload)

\* C8: for any provider-side state of a signing request, the manual resync
\* called with its correlation id leaves documents and records as processing
\* the equivalent webhook event through synchroniserAvecDropboxSign does
C8_ResyncCommeWebhook ==
  \A id \in RequestIds, p \in Payloads :
    Len(p) > 0 =>
      LET r == synchronisationManuelle("admin", id, "ok", p)
          w == synchroniserAvecDropboxSign(documents, signatures,
                                           EvenementEquivalent(id, p))
      IN r.documents = w.documents /\ r.signatures = w.signatures

\* C9: once a document has statut rejete or archive, no step changes it to
\* en_attente_signature, partiellement_signe or signe
C9_RejeteArchiveDefinitifs ==
  [][\A d \in DocIds :
       (/\ documents[d].etat = "present"
        /\ documents[d].statut \in {"rejete", "archive"}) =>
         documents'[d].statut \notin
           {"en_attente_signature", "partiellement_signe", "signe"}]_vars

\* C10: a document becomes archive only from signe, through the archiver route
\* as through the periodic cleanup
C10_ArchiveDepuisSigne ==
  [][\A d \in DocIds :
       (/\ documents[d].etat = "present"
        /\ documents[d].statut # "archive"
        /\ documents'[d].statut = "archive") =>
         documents[d].statut = "signe"]_vars

\* at most one record per (document, signataire) pair in a list of records
UniciteSignatures(sigs) ==
  \A i, j \in 1..Len(sigs) :
    (sigs[i].document = sigs[j].document
       /\ sigs[i].signataire = sigs[j].signataire) => i = j

\* the workflow of the document lists one user twice
WorkflowRepete(doc) ==
  \E i, j \in 1..Len(doc.workflowSignature) :
    i # j /\ doc.workflowSignature[i].utilisateur
              = doc.workflowSignature[j].utilisateur

NonEnvoyable(doc) ==
  /\ doc.etat = "present"
  /\ \/ doc.statut # "brouillon"
     \/ Len(doc.workflowSignature) = 0
     \/ \E i \in 1..Len(doc.workflowSignature) :
          doc.workflowSignature[i].utilisateur \notin Utilisateurs

\* C12: envoyerPourSignature on a document that is not a draft, has an empty
\* workflow or has an unresolved workflow entry answers 4xx, creates no
\* Signature record, calls no Gateway operation and leaves the document as it was
C12_EnvoiInvalideRefuse ==
  \A d \in DocIds, a \in Appelants, gw \in ResultatsGatewayEnvoi :
    NonEnvoyable(documents[d]) =>
      LET r == envoyerPourSignature(d, a, gw)
      IN /\ r.code \in 400..499
         /\ r.signatures = signatures
         /\ r.documents = documents
         /\ ~r.gateway

\* a draft with an unresolved workflow entry and no record, whose dispatch by
\* its owner is refused with 400
C12_Temoin ==
  \E d \in DocIds :
    /\ documents[d].etat = "present"
    /\ documents[d].statut = "brouillon"
    /\ Len(documents[d].workflowSignature) > 0
    /\ documents[d].workflowSignature[1].utilisateur \notin Utilisateurs
    /\ SignaturesDe(signatures, d) = {}
    /\ envoyerPourSignature(d, "admin", "ok").code = 400

\* the event cannot be matched: no signature_request, no signature_request_id,
\* or an id no document carries
SansCorrelation(ev) ==
  \/ ~ev.sr
  \/ ev.id = ""
  \/ DocumentsParRequestId(documents, ev.id) = {}

\* C13: an event of a business type that carries no signature_request or no
\* signature_request_id, or whose id matches no document, is acknowledged with
\* a success and changes no document and no Signature record
C13_EvenementSansCorrelationAcquitte ==
  \A ev \in Evenements, authentique \in BOOLEAN :
    (ev.json /\ ev.type \in TypesMetier /\ SansCorrelation(ev)) =>
      LET r == webhookDropboxSign(ev, authentique)
      IN /\ r.code = 200
         /\ r.documents = documents
         /\ r.signatures = signatures

\* C14: peutEtreSigne() is true exactly when statut is en_attente and the record
\* has no dateExpiration or one strictly later than now; a record whose
\* dateExpiration is now or earlier is not signable and signerDocument, called
\* by its signer, refuses it (400) and changes nothing
C14_SignableStrictementAvantExpiration ==
  \A s \in 1..Len(signatures) :
    LET sig == signatures[s]
    IN /\ (sig.statut = "en_attente" /\ sig.dateExpiration = NullDate)
            => peutEtreSigne(sig, now)
       /\ (sig.statut = "en_attente" /\ sig.dateExpiration # NullDate
             /\ sig.dateExpiration > now)
            => peutEtreSigne(sig, now)
       /\ sig.statut # "en_attente" => ~peutEtreSigne(sig, now)
       /\ (sig.dateExpiration # NullDate /\ sig.dateExpiration <= now)
            => /\ ~peutEtreSigne(sig, now)
               /\ \A gw \in ResultatsGatewayStatut :
                    LET r == signerDocument(s, sig.signataire, gw)
                    IN /\ r.code \in 400..499
                       /\ r.signatures = signatures
                       /\ r.documents = documents

\* a pending record whose dateExpiration is exactly now, refused with 400
C14_Temoin ==
  \E s \in 1..Len(signatures) :
    /\ signatures[s].statut = "en_attente"
    /\ signatures[s].dateExpiration = now
    /\ signerDocument(s, signatures[s].signataire, "signed").code = 400

\* C15: signerDocument called by the designated signer on a signable record
\* answers 200 and leaves the record signe whatever the Gateway status query
\* gives (an entry, no entry, a failure); when the query fails the other
\* records and the documents are as before
C15_SignatureLocaleToujoursAcceptee ==
  \A s \in 1..Len(signatures), gw \in ResultatsGatewayStatut :
    LET sig == signatures[s]
        r == signerDocument(s, sig.signataire, gw)
    IN peutEtreSigne(sig, now) =>
         /\ r.code = 200
         /\ Len(r.signatures) = Len(signatures)
         /\ r.signatures[s].statut = "signe"
         /\ \A i \in 1..Len(signatures) : i # s => r.signatures[i] = signatures[i]
         /\ gw \in {"introuvable", "echec"} => r.documents = documents

\* a record signed through signerDocument (its history says so) whose document,
\* the Gateway query having failed, is still en_attente_signature
C15_Temoin ==
  \E s \in 1..Len(signatures) :
    LET sig == signatures[s]
    IN /\ sig.statut = "signe"
       /\ sig.historique[Len(sig.historique)] = "signature"
       /\ documents[sig.document].etat = "present"
       /\ documents[sig.document].statut = "en_attente_signature"

\* document d is still en_attente_signature while one of its records is signe
EnAttenteAvecSigne(docs, sigs, d) ==
  /\ docs[d].etat = "present"
  /\ docs[d].statut = "en_attente_signature"
  /\ \E i \in SignaturesDe(sigs, d) : sigs[i].statut = "signe"

\* C18: every operation that sets a record to signe (signerDocument in both its
\* branches, the signed webhook event) re-derives the document statut last:
\* once it has completed, the document is not still en_attente_signature while
\* one of its records is signe
C18_DocumentRederiveApresSignature ==
  /\ \A s \in 1..Len(signatures), gw \in ResultatsGatewayStatut :
       LET r == signerDocument(s, signatures[s].signataire, gw)
       IN r.code = 200
            => ~EnAttenteAvecSigne(r.documents, r.signatures,
                                   signatures[s].document)
  /\ \A ev \in Evenements :
       LET r == webhookDropboxSign(ev, TRUE)
       IN (ev.type = "signature_request_signed" /\ r.code = 200)
            => \A d \in DocumentsParRequestId(documents, ev.id) :
                 r.signatures # signatures
                   => ~EnAttenteAvecSigne(r.documents, r.signatures, d)

\* every obligatoire signer of document d has a local record that is signe
ObligatoiresSignesLocalement(docs, sigs, d) ==
  \A k \in 1..Len(docs[d].workflowSignature) :
    docs[d].workflowSignature[k].obligatoire =>
      \E i \in SignaturesDe(sigs, d) :
        /\ sigs[i].signataire = docs[d].workflowSignature[k].utilisateur
        /\ sigs[i].statut = "signe"

\* C19: after a signed webhook event the statut of the matched document (one
\* with an obligatoire signer) is signe exactly when every obligatoire signer
\* has a local record that is signe, and partiellement_signe otherwise,
\* whatever the payload lists
C19_StatutDepuisEnregistrementsLocaux ==
  \A ev \in Evenements :
    LET r == webhookDropboxSign(ev, TRUE)
    IN (ev.type = "signature_request_signed" /\ ev.liste /\ r.code = 200)
         => \A d \in DocumentsParRequestId(documents, ev.id) :
              (\E k \in 1..Len(documents[d].workflowSignature) :
                 documents[d].workflowSignature[k].obligatoire)
                => r.documents[d].statut
                     = IF ObligatoiresSignesLocalement(r.documents, r.signatures, d)
                       THEN "signe" ELSE "partiellement_signe"

\* the entries of a payload that report a refusal
Declines(payload) ==
  {i \in 1..Len(payload) : payload[i].status_code = "declined"}

C16_UneSeuleSortieDEnAttente ==
  [][\A s \in 1..Len(signatures) :
       signatures[s].statut # "en_attente" =>
         signatures'[s].statut = signatures[s].statut]_vars

\* the obligatoire signers of document d, and those whose record is signe
SignatairesObligatoires(d) ==
  {documents[d].workflowSignature[k].utilisateur :
     k \in {j \in 1..Len(documents[d].workflowSignature) :
              documents[d].workflowSignature[j].obligatoire}}

\* C17: when the last two pending obligatoire signers of a document run
\* signerDocument concurrently, the statut finally persisted is signe: once no
\* call is in progress and the records of both obligatoire signers are signe,
\* the document is signe
C17_DerniersSignatairesConcurrents ==
  \A d \in DocIds :
    (/\ enCours = {}
     /\ documents[d].etat = "present"
     /\ Cardinality(SignatairesObligatoires(d)) = 2
     /\ \A u \in SignatairesObligatoires(d) :
          \E i \in SignaturesDe(signatures, d) :
            signatures[i].signataire = u /\ signatures[i].statut = "signe")
      => documents[d].statut = "signe"

\* C21: an all_signed webhook event sets the matched document to signe and
\* fetches the signed artifact: when the Gateway can serve it the signed-file
\* reference is persisted, when it cannot the document stays signe, no
\* reference is written and the webhook still answers 200
C21_FichierSigneApresToutSigne ==
  \A ev \in Evenements, gw \in ResultatsGatewayFichiers :
    LET r == webhookDropboxSign(ev, TRUE)
    IN (ev.json /\ ev.type = "signature_request_all_signed" /\ ev.sr)
         => \A d \in DocumentsParRequestId(documents, ev.id) :
              /\ r.code = 200
              /\ r.documents[d].statut = "signe"
              /\ gw = "ok" => r.documents[d].fichierSigne
              /\ gw = "echec"
                   => r.documents[d].fichierSigne = documents[d].fichierSigne

\* the event types that are informational only
TypesInformatifs ==
  {"callback_test", "signature_request_sent", "signature_request_viewed",
   "signature_request_error", "autre"}

\* C22: a webhook event of type callback_test, sent, viewed, error or of an
\* unrecognised type leaves every document and every Signature record as it
\* was (statut, workflow, history and all other fields)
C22_EvenementsInformatifsSansEffet ==
  \A ev \in Evenements, authentique \in BOOLEAN :
    ev.type \in TypesInformatifs =>
      LET r == webhookDropboxSign(ev, authentique)
      IN r.documents = documents /\ r.signatures = signatures

\* a dispatched document whose request id an error event names, the event
\* being acknowledged
C22_Temoin ==
  \E d \in DocIds :
    /\ documents[d].etat = "present"
    /\ documents[d].statut = "en_attente_signature"
    /\ documents[d].signatureRequestId = RequestIdDe(d)
    /\ webhookDropboxSign(
         Evenement(TRUE, "signature_request_error", TRUE, RequestIdDe(d),
                   FALSE, <<>>), TRUE).code = 200

\* the record is pending and its dateExpiration is set and not later than t
Echue(sig, t) ==
  /\ sig.statut = "en_attente"
  /\ sig.dateExpiration \in Dates
  /\ sig.dateExpiration <= t

\* the records a sweep at time t must leave
BalayageAttendu(sigs, t) ==
  [i \in 1..Len(sigs) |->
     IF Echue(sigs[i], t) THEN [sigs[i] EXCEPT !.statut = "expire"] ELSE sigs[i]]

\* C23: nettoyerSignaturesExpirees changes to expire exactly the records that
\* are en_attente with a dateExpiration at or before now and nothing else, a
\* second run right after changes nothing, and a step that makes a record
\* expire is a run of the sweep (by the scheduled job or inside cleanup)
C23_SeulLeBalayageExpire ==
  /\ [](LET r == nettoyerSignaturesExpirees
        IN /\ r.signatures = BalayageAttendu(signatures, now)
           /\ r.documents = documents
           /\ BalayageAttendu(r.signatures, now) = r.signatures)
  /\ [][(\E i \in 1..Len(signatures) :
           /\ i <= Len(signatures')
           /\ signatures[i].statut # "expire"
           /\ signatures'[i].statut = "expire")
        => signatures' = BalayageAttendu(signatures, now)]_vars

\* a record the sweep has marked expire
C23_Temoin ==
  \E s \in 1..Len(signatures) :
    /\ signatures[s].statut = "expire"
    /\ signatures[s].dateExpiration \in Dates
    /\ signatures[s].dateExpiration <= now

\* the answer refuses the request with the given code and leaves the store
RefuseSansEffet(r, code) ==
  /\ r.code = code
  /\ r.documents = documents
  /\ r.signatures = signatures

\* C24: a sign or reject request by a user who is not the designated signer is
\* refused as Forbidden (403); a request by the signer on a record that is not
\* en_attente (or, for signing, that is expired) is refused as an invalid
\* state (400); in both cases records and documents are unchanged
C24_RefusSignerRejeter ==
  \A s \in 1..Len(signatures), a \in Appelants :
    LET sig == signatures[s]
        expire == sig.dateExpiration # NullDate /\ sig.dateExpiration <= now
    IN /\ \A gw \in ResultatsGatewayStatut :
            LET r == signerDocument(s, a, gw)
            IN /\ a # sig.signataire => RefuseSansEffet(r, 403)
               /\ (a = sig.signataire /\ (sig.statut # "en_attente" \/ expire))
                    => RefuseSansEffet(r, 400)
       /\ LET r == rejeterSignature(s, a, "montant incorrect")
          IN /\ a # sig.signataire => RefuseSansEffet(r, 403)
             /\ (a = sig.signataire /\ sig.statut # "en_attente")
                  => RefuseSansEffet(r, 400)

\* the obligatoire entries of a workflow
Obligatoires(wf) == {i \in 1..Len(wf) : wf[i].obligatoire}

\* the document with the entries that are not obligatoire taken out
SansFacultatifs(doc) ==
  [doc EXCEPT !.workflowSignature =
     SelectSeq(doc.workflowSignature, LAMBDA w : w.obligatoire)]

\* C25: estComplétementSigne() is true exactly when the workflow has at least
\* one obligatoire entry and every obligatoire entry is signe; the entries that
\* are not obligatoire do not change its result, and the statut signerDocument
\* derives is signe exactly in that case
C25_CompletSsiObligatoiresSignes ==
  \A d \in DocIds :
    LET doc == documents[d]
        wf == doc.workflowSignature
        attendu == /\ Obligatoires(wf) # {}
                   /\ \A i \in Obligatoires(wf) : wf[i].statut = "signe"
    IN /\ estCompletementSigne(doc) <=> attendu
       /\ estCompletementSigne(doc) <=> estCompletementSigne(SansFacultatifs(doc))
       /\ Obligatoires(wf) = {} => ~estCompletementSigne(doc)
       /\ (doc.statut \in {"signe", "partiellement_signe"})
            => (doc.statut = "signe" <=> attendu)

\* a document found complete, and saved as signe, while an entry that is not
\* obligatoire is still en_attente
C25_Temoin ==
  \E d \in DocIds :
    LET wf == documents[d].workflowSignature
    IN /\ estCompletementSigne(documents[d])
       /\ documents[d].statut = "signe"
       /\ \E i \in 1..Len(wf) : ~wf[i].obligatoire /\ wf[i].statut = "en_attente"

\* in the store (docs, sigs) document d has exactly one record per workflow
\* entry, with the ordre of the entry and the signing deadline of the document
UnEnregistrementParEntree(docs, sigs, d) ==
  LET wf == docs[d].workflowSignature
  IN /\ Cardinality(SignaturesDe(sigs, d)) = Len(wf)
     /\ \A k \in 1..Len(wf) :
          \E i \in SignaturesDe(sigs, d) :
            /\ sigs[i].signataire = wf[k].utilisateur
            /\ sigs[i].ordreSignature = wf[k].ordre
            /\ sigs[i].dateExpiration = docs[d].dateLimiteSignature
            /\ \A j \in SignaturesDe(sigs, d) :
                 (sigs[j].signataire = wf[k].utilisateur
                    /\ sigs[j].ordreSignature = wf[k].ordre) => j = i

\* C26: after every envoyerPourSignature that answers success the document has
\* exactly one record per workflow entry (ordreSignature of the entry,
\* dateExpiration of the document's deadline), those created by the call being
\* en_attente and none of the records that existed being duplicated or changed
C26_UnEnregistrementParEntreeApresEnvoi ==
  \A d \in DocIds, a \in Appelants :
    /\ \A gw \in ResultatsGatewayEnvoi :
         LET r == envoyerPourSignature(d, a, gw)
         IN r.code = 200 =>
              /\ UnEnregistrementParEntree(r.documents, r.signatures, d)
              /\ \A i \in 1..Len(r.signatures) :
                   IF i <= Len(signatures)
                   THEN r.signatures[i] = signatures[i]
                   ELSE r.signatures[i].statut = "en_attente"
    /\ \A gw \in ResultatsGatewayEnvoiV1 :
         LET r == envoyerPourSignatureV1(d, a, gw)
         IN r.code = 200 =>
              UnEnregistrementParEntree(r.documents, r.signatures, d)

\* C27: for each Signature record whose signer has a workflow entry on the
\* record's document, the entry is signe if and only if the record is signe,
\* and rejete if and only if the record is rejete
C27_WorkflowSuitLesEnregistrements ==
  \A s \in 1..Len(signatures) :
    LET sig == signatures[s]
        doc == documents[sig.document]
        k == IndexWorkflow(doc.workflowSignature, sig.signataire)
    IN (doc.etat = "present" /\ k # 0) =>
         /\ doc.workflowSignature[k].statut = "signe" <=> sig.statut = "signe"
         /\ doc.workflowSignature[k].statut = "rejete" <=> sig.statut = "rejete"

\* C28: every Signature record references a document that exists; in
\* particular no record is left en_attente, still signable or rejectable, for
\* a document that supprimerDocument has deleted
C28_EnregistrementsSansOrphelin ==
  \A s \in 1..Len(signatures) :
    documents[signatures[s].document].etat = "present"

\* C29: obtenirSignaturesEnAttente(user) lists exactly the records of the user
\* for which peutEtreSigne() is true, those stored with a null dateExpiration
\* included, and signerDocument refuses no listed record as not signable
C29_ListeEnAttenteEgaleSignables ==
  \A u \in Utilisateurs :
    /\ obtenirSignaturesEnAttente(signatures, u, now)
         = {i \in 1..Len(signatures) :
              signatures[i].signataire = u /\ peutEtreSigne(signatures[i], now)}
    /\ \A i \in obtenirSignaturesEnAttente(signatures, u, now),
          gw \in ResultatsGatewayStatut :
         signerDocument(i, u, gw).code = 200

\* C30: obtenirURLSignature asks the Gateway for a new embedded signing request
\* only when the record holds no signing URL that is still valid: once a call
\* has fetched and stored a URL, a call for the same record before that URL
\* expires answers 200 with the stored URL, calls no Gateway operation and
\* writes nothing
C30_URLStockeeReutilisee ==
  \A s \in 1..Len(signatures), gw \in ResultatsGatewayIntegree :
    LET sig == signatures[s]
        r == obtenirURLSignature(s, sig.signataire, gw)
    IN (/\ peutEtreSigne(sig, now)
        /\ sig.signUrl \/ sig.embeddedSignUrl
        /\ sig.signUrlExpiration # NullDate
        /\ sig.signUrlExpiration > now)
         => /\ r.code = 200
            /\ ~r.gateway
            /\ r.signatures = signatures
            /\ r.documents = documents
====
